---- MODULE Spec2Model ----
(***************************************************************************)
(* pahkat-reposrv: the git workspace guarded by a reader/writer lock, the  *)
(* create/update mutation handlers, the read handlers, the startup         *)
(* initialisation and the periodic index refresh that publishes one        *)
(* snapshot per configured repository.                                     *)
(***************************************************************************)
EXTENDS Integers, Sequences, FiniteSets, TLC

VARIABLES
    phase,      \* "boot" before init_repo_indexes, "serving" after, "exited" if startup failed
    commits,    \* the git object store: commit id (index) -> [tree, parent]
    remote,     \* tip of the branch at origin (the remote repository)
    disk,       \* the workspace directory: [tree, index, head, origin]
    head_ref,   \* GitRepo.head_ref (0 before GitRepo::new)
    lock,       \* GIT_REPO RwLock: [writer, readers]
    pc,         \* position of each mutation request
    req,        \* the request each mutation handler is serving
    res,        \* the response of each mutation handler
    trace,      \* the workspace steps the current call of each handler has run
    cache,      \* REPO_INDEXES: repo id -> [head_ref, package_index]
    tick,       \* the refresh task: [pc, head_ref, tmpdir, todo, clone_ok]
    dl,         \* the download handler: [pc, repo, pkg]
    resp,       \* the response of the read handler that has just run
    nreq,       \* how many mutation requests have arrived
    SERVER_STATUS, \* SERVER_STATUS.index_ref: repo id -> head_ref
    DIVVUN_INST_REPO_INDEX, \* the OnceCell of the legacy catalog: [set, index]
    rebuild     \* a packages directory and the catalogs built from it

vars == <<phase, commits, remote, disk, head_ref, lock, pc, req, res, trace,
          cache, tick, dl, resp, nreq, SERVER_STATUS,
          DIVVUN_INST_REPO_INDEX, rebuild>>

(***************************************************************************)
(* Bounds and the configuration.                                           *)
(***************************************************************************)
MaxCommits == 2
MaxReqs == 2
MaxRebuilds == 2

Repos == {"divvun-installer", "r2"}              \* config.repos
RepoIds == Repos \cup {"zz"}       \* "zz" is not configured
Pkgs == {"p"}
Files == Repos \X Pkgs
RepoToml == "index.toml"           \* <repo>/index.toml, the repository descriptor
RepoFiles == Repos \X {RepoToml}
Paths == Files \cup RepoFiles             \* <repo>/packages/<pkg>/index.toml
Procs == {"m1", "m2"}              \* request tasks serving mutations
NoProc == "none"
ServerToken == "secret"            \* config.api_token
Tokens == {"secret", "wrong"}
VersionStrings == {"1.0.0", "bogus"}
NoParam == "-"                     \* an absent optional parameter
Platforms == {"windows", "macos"}
Channels == {NoParam, "beta"}
Outcomes == {"ok", "fail", "err"}  \* exit 0, non-zero exit, io::Error from spawning

(***************************************************************************)
(* Package descriptors and trees.                                          *)
(***************************************************************************)
\* valid: the file parses as TOML of its type
NoFile == [present |-> FALSE, valid |-> FALSE, release |-> <<>>]
Fresh == [present |-> TRUE, valid |-> TRUE, release |-> <<>>]
Garbled == [present |-> TRUE, valid |-> FALSE, release |-> <<>>]
Url(r, p, v) == <<"https://payload", r, p, v>>
Release(r, p, v, ch, pf) ==
    [version |-> v, channel |-> ch,
     target |-> <<[platform |-> pf, url |-> Url(r, p, v)]>>]
\* the order of semantic versions
VersionRank(v) == IF v = "2.0.0" THEN 2 ELSE 1
Descs(f) == {NoFile, Fresh,
             [present |-> TRUE, valid |-> TRUE,
              release |-> <<Release(f[1], f[2], "1.0.0", NoParam, "windows")>>]}
\* descriptors as other clients of the remote write them: unparseable, with
\* releases in either order, with a channel, with several targets
RichDescs(f) ==
    IF f \in RepoFiles THEN {NoFile, Garbled, Fresh}
    ELSE LET R1 == Release(f[1], f[2], "1.0.0", NoParam, "windows")
             R2 == Release(f[1], f[2], "2.0.0", NoParam, "windows")
             RB == Release(f[1], f[2], "2.0.0", "beta", "macos")
             RT == [version |-> "1.0.0", channel |-> "stable",
                    target |-> <<[platform |-> "macos", url |-> Url(f[1], f[2], "mac")],
                                 [platform |-> "windows", url |-> Url(f[1], f[2], "win-a")],
                                 [platform |-> "windows", url |-> Url(f[1], f[2], "win-b")]>>]
         IN  {NoFile, Garbled, Fresh,
              [present |-> TRUE, valid |-> TRUE, release |-> <<R1, R2>>],
              [present |-> TRUE, valid |-> TRUE, release |-> <<R2, R1>>],
              [present |-> TRUE, valid |-> TRUE, release |-> <<RB, RT, R2>>]}
EmptyTree == [f \in Paths |-> NoFile]
BaseTree == [f \in Paths |->
                IF f \in RepoFiles \/ f[1] = "divvun-installer" THEN Fresh
                ELSE NoFile]

(***************************************************************************)
(* git, as the handlers drive it through std::process::Command.  Each      *)
(* command has three outcomes: "ok" (exit 0, the command's effect),        *)
(* "fail" (a non-zero exit: no effect, and .status()? does not look at the *)
(* exit code) and "err" (the process could not be started: io::Error).     *)
(***************************************************************************)
RECURSIVE IsAncestor(_, _)
IsAncestor(a, b) ==
    IF a = b THEN TRUE
    ELSE IF b = 0 THEN FALSE
    ELSE IsAncestor(a, commits[b].parent)

\* faulty variant: the commit the remote-tracking branch names is read
git_revparse_head_Origin(d) == d.origin
\* git rev-parse HEAD in a repository that has commits
git_revparse_head(d) == d.head

\* git clean -dfx: untracked files (not in the index) are deleted
git_clean(d) ==
    [d EXCEPT !.tree = [f \in Paths |->
        IF d.index[f].present THEN d.tree[f] ELSE NoFile]]

\* git fetch origin <branch>: origin/<branch> follows the remote tip
git_fetch(d) == [d EXCEPT !.origin = remote]

\* git reset --hard origin/<branch>: HEAD, index and the tracked files become
\* the target commit; a file that is untracked and not in the target stays
git_reset_hard(d) ==
    LET t == commits[d.origin].tree
    IN  [d EXCEPT !.head = d.origin,
                  !.index = t,
                  !.tree = [f \in Paths |->
                      IF t[f].present THEN t[f]
                      ELSE IF d.index[f].present THEN NoFile
                      ELSE d.tree[f]]]

\* git add <repo>/packages/<pkg>
git_add(d, f) == [d EXCEPT !.index[f] = d.tree[f]]

\* git commit records the index when it differs from HEAD's tree
HasStaged(d) == d.index # commits[d.head].tree
NewCommit(d) == [tree |-> d.index, parent |-> d.head]

\* git push origin HEAD:<branch> is accepted when it fast-forwards the remote
PushAccepted(d) == IsAncestor(remote, d.head)

Apply(o, d, e) == IF o = "ok" THEN e ELSE d

\* GitRepo::cleanup: clean, fetch, reset --hard; Err only when a spawn fails.
\* o is the triple of outcomes of the three commands.
cleanup(d, o) ==
    LET d1 == Apply(o[1], d, git_clean(d))
        d2 == Apply(o[2], d1, git_fetch(d1))
        d3 == Apply(o[3], d2, git_reset_hard(d2))
    IN  IF o[1] = "err" THEN [disk |-> d, ok |-> FALSE]
        ELSE IF o[2] = "err" THEN [disk |-> d1, ok |-> FALSE]
        ELSE IF o[3] = "err" THEN [disk |-> d2, ok |-> FALSE]
        ELSE [disk |-> d3, ok |-> TRUE]

\* the outcome triples that matter: after an "err" the later commands do not run
CleanupOutcomes ==
    {o \in Outcomes \X Outcomes \X Outcomes :
        /\ o[1] = "err" => (o[2] = "ok" /\ o[3] = "ok")
        /\ o[2] = "err" => o[3] = "ok"}

\* GitRepo::shallow_clone_to_tempdir: git clone --depth 1 file://<path> <tmpdir>
\* copies the commit HEAD names; a failed clone leaves the tempdir empty.
\* faulty variant: the export copies the working directory instead of cloning HEAD
shallow_clone_copies_worktree(d, o) ==
    IF o = "err" THEN [ok |-> FALSE, tmpdir |-> EmptyTree]
    ELSE [ok |-> TRUE, tmpdir |-> IF o = "ok" THEN d.tree ELSE EmptyTree]
shallow_clone_to_tempdir(d, o) ==
    IF o = "err" THEN [ok |-> FALSE, tmpdir |-> EmptyTree]
    ELSE [ok |-> TRUE,
          tmpdir |-> IF o = "ok" THEN commits[d.head].tree ELSE EmptyTree]

(***************************************************************************)
(* The index builder and the snapshot slots.                               *)
(***************************************************************************)
\* generate_repo_index: the packages of <tmpdir>/<repo>/packages whose
\* descriptor can be read; the catalog lists each with its releases.
\* io: create_dir_all or read_dir fails, the only Err the function returns.
\* faulty variant: a descriptor that does not parse is listed all the same
build_index_KeepsGarbled(tmpdir, r) ==
    {[id |-> p, release |-> tmpdir[<<r, p>>].release] :
        p \in {q \in Pkgs : tmpdir[<<r, q>>].present}}
build_index(tmpdir, r) ==
    {[id |-> p, release |-> tmpdir[<<r, p>>].release] :
        p \in {q \in Pkgs : tmpdir[<<r, q>>].present /\ tmpdir[<<r, q>>].valid}}
generate_repo_index(tmpdir, r, io) ==
    [ok |-> ~io, index |-> IF io THEN {} ELSE build_index(tmpdir, r)]

Placeholder == [head_ref |-> 0, package_index |-> {}]

(***************************************************************************)
(* The reader/writer lock around the workspace (parking_lot::RwLock).      *)
(***************************************************************************)
WriterWaiting == \E m \in Procs : pc[m] = "waiting"
\* faulty variant: a writer that does not wait for the shared holders
CanWrite_NoReaderCheck == lock.writer = NoProc
CanWrite == lock.writer = NoProc /\ lock.readers = {}
\* faulty variant: a reader is let in whenever no writer holds the lock
CanRead_Overtakes == lock.writer = NoProc
\* task-fair policy: a reader does not overtake a waiting writer
CanRead == lock.writer = NoProc /\ ~WriterWaiting
Unlocked == [writer |-> NoProc, readers |-> {}]

(***************************************************************************)
(* Initial state: the workspace clone exists on disk, the process starts.  *)
(***************************************************************************)
NoReq == [op |-> "none", token |-> ServerToken, repo |-> "divvun-installer", pkg |-> "p",
          version |-> "1.0.0"]
\* what a read request asks for: path and query parameters, User-Agent
Asked(r, p, platform, channel, user_agent) ==
    [repo |-> r, pkg |-> p, platform |-> platform, channel |-> channel,
     user_agent |-> user_agent]
NoAsk == Asked(NoParam, NoParam, NoParam, NoParam, NoParam)
NoResp == [op |-> "none", status |-> "none", desc |-> NoFile, index |-> {},
           url |-> <<>>, q |-> NoAsk]
IdleTick == [pc |-> "idle", head_ref |-> 0, tmpdir |-> EmptyTree, todo |-> {},
             clone_ok |-> FALSE]
NoRebuild == [files |-> <<>>, built |-> <<>>]   \* no directory looked at
Unset == [set |-> FALSE, index |-> {}]      \* OnceCell::new()
NoStatus == [r \in {} |-> 0]               \* index_ref: Default::default()
\* state::server_status(): the head_ref of every slot
server_status(c) == [r \in DOMAIN c |-> c[r].head_ref]
IdleDl == [pc |-> "idle", repo |-> "divvun-installer", pkg |-> "p"]

Init ==
    /\ phase = "boot"
    /\ commits = <<[tree |-> BaseTree, parent |-> 0]>>
    /\ remote = 1
    /\ disk = [tree |-> BaseTree, index |-> BaseTree, head |-> 1, origin |-> 1]
    /\ head_ref = 0
    /\ lock = Unlocked
    /\ pc = [m \in Procs |-> "idle"]
    /\ req = [m \in Procs |-> NoReq]
    /\ res = [m \in Procs |-> "none"]
    /\ trace = [m \in Procs |-> {}]
    /\ cache = [r \in Repos |-> Placeholder]
    /\ tick = IdleTick
    /\ dl = IdleDl
    /\ resp = NoResp
    /\ nreq = 0
    /\ SERVER_STATUS = NoStatus
    /\ DIVVUN_INST_REPO_INDEX = Unset
    /\ rebuild = NoRebuild

\* a workspace clone whose content was written by other clients
RichTrees == {t \in [Paths -> UNION {RichDescs(f) : f \in Paths}] :
                \A f \in Paths : t[f] \in RichDescs(f)}
\* packages present, absent or unparseable under intact repository descriptors
PlainTrees == {t \in RichTrees :
                 /\ \A f \in RepoFiles : t[f] = Fresh
                 /\ \A f \in Files : t[f] \in {NoFile, Garbled, Fresh}}
InitFrom(T) ==
    /\ phase = "boot"
    /\ \E t \in T :
        /\ commits = <<[tree |-> t, parent |-> 0]>>
        /\ disk = [tree |-> t, index |-> t, head |-> 1, origin |-> 1]
    /\ remote = 1
    /\ head_ref = 0
    /\ lock = Unlocked
    /\ pc = [m \in Procs |-> "idle"]
    /\ req = [m \in Procs |-> NoReq]
    /\ res = [m \in Procs |-> "none"]
    /\ trace = [m \in Procs |-> {}]
    /\ cache = [r \in Repos |-> Placeholder]
    /\ tick = IdleTick
    /\ dl = IdleDl
    /\ resp = NoResp
    /\ nreq = 0
    /\ SERVER_STATUS = NoStatus
    /\ DIVVUN_INST_REPO_INDEX = Unset
    /\ rebuild = NoRebuild
InitFiles == InitFrom(RichTrees)
InitRebuild == InitFrom(PlainTrees)

\* room in the object store for one more commit
Room == Len(commits) < MaxCommits

(***************************************************************************)
(* Someone else pushes a commit to the remote branch.                      *)
(***************************************************************************)
RemoteAdvance ==
    /\ Room
    /\ \E f \in Files : \E x \in Descs(f) :
        /\ x # commits[remote].tree[f]
        /\ commits' = Append(commits,
              [tree |-> [commits[remote].tree EXCEPT ![f] = x], parent |-> remote])
    /\ remote' = Len(commits) + 1
    /\ UNCHANGED <<rebuild, DIVVUN_INST_REPO_INDEX, SERVER_STATUS, phase, disk, head_ref, lock, pc, req, res, trace, cache,
                   tick, dl, resp, nreq>>

(***************************************************************************)
(* Startup: init_repo_indexes.                                             *)
(***************************************************************************)
\* faulty variant: the slots are left as placeholders for the first tick
init_repo_indexes_Lazy ==
    /\ phase = "boot"
    /\ head_ref' = git_revparse_head(disk)
    /\ phase' = "serving"
    /\ SERVER_STATUS' = server_status(cache)
    /\ UNCHANGED <<rebuild, DIVVUN_INST_REPO_INDEX, cache, disk, commits, remote, lock, pc,
                   req, res, trace, tick, dl, resp, nreq>>

init_repo_indexes ==
    /\ phase = "boot"
    /\ \E skip_repo_cleanup \in BOOLEAN, o \in CleanupOutcomes, oc \in Outcomes,
          io \in BOOLEAN :
        LET new_ref == git_revparse_head(disk)                \* GitRepo::new
            c == IF skip_repo_cleanup THEN [disk |-> disk, ok |-> TRUE]
                 ELSE cleanup(disk, o)
            e == shallow_clone_to_tempdir(c.disk, oc)
        IN  /\ head_ref' = new_ref
            /\ disk' = c.disk
            /\ IF c.ok /\ e.ok /\ ~io      \* ? returns Err, unwrap() panics
               THEN /\ cache' = [r \in Repos |->
                          [head_ref |-> new_ref,
                           package_index |->
                               generate_repo_index(e.tmpdir, r, FALSE).index]]
                    /\ SERVER_STATUS' = server_status(cache')
                    /\ phase' = "serving"
               ELSE /\ phase' = "exited"
                    /\ UNCHANGED <<cache, SERVER_STATUS>>
    /\ UNCHANGED <<rebuild, DIVVUN_INST_REPO_INDEX, commits, remote, lock, pc, req, res,
                   trace, tick, dl, resp, nreq>>

(***************************************************************************)
(* The mutation handlers: create_package_metadata, update_package_metadata *)
(***************************************************************************)
WsSteps == {"cleanup", "edit", "add", "commit", "push"}

\* faulty variant: every token passes
check_bearer_token_Any(token) == TRUE
\* check_bearer_token
check_bearer_token(token) == token = ServerToken

\* config.repos.contains(&repo_id)
Configured(r) == r \in Repos

\* <path>/<repo>/packages/<pkg>/index.toml .exists()
PackageExists(d, f) == d.tree[f].present

\* the early return taken right after write(): "" when the handler goes on
\* faulty variants: the existence checks are skipped
create_precheck_skipped(d, f) == ""
update_precheck_skipped(d, f) == ""
create_precheck(d, f) == IF PackageExists(d, f) THEN "conflict" ELSE ""
update_precheck(d, f) == IF ~PackageExists(d, f) THEN "notfound" ELSE ""
Precheck(op, d, f) ==
    IF op = "create" THEN create_precheck(d, f) ELSE update_precheck(d, f)

\* release.version.parse()
ParseVersion(v) == v \in {"1.0.0", "2.0.0"}

\* package::update::update: add the release, or replace the one of the same
\* version and channel
AddRelease(desc, rel) ==
    IF \E i \in 1..Len(desc.release) :
           /\ desc.release[i].version = rel.version
           /\ desc.release[i].channel = rel.channel
    THEN [desc EXCEPT !.release = [i \in 1..Len(desc.release) |->
            IF /\ desc.release[i].version = rel.version
               /\ desc.release[i].channel = rel.channel
            THEN rel ELSE desc.release[i]]]
    ELSE [desc EXCEPT !.release = <<rel>> \o desc.release]

\* modify_repo_metadata: [status, tree]; the version is parsed first
modify_repo_metadata(d, q, io) ==
    LET f == <<q.repo, q.pkg>>
    IN  IF ~ParseVersion(q.version) THEN [status |-> "VersionError", disk |-> d]
        ELSE IF io \/ ~d.tree[f].present \/ ~d.tree[f].valid
        THEN [status |-> "RepoError", disk |-> d]
        ELSE [status |-> "Ok",
              disk |-> [d EXCEPT !.tree[f] = AddRelease(d.tree[f],
                  Release(q.repo, q.pkg, q.version, NoParam, "windows"))]]

\* how the update handler maps the error of modify_repo_metadata
UpdateErrorStatus(e) == "servererr"

\* package::init::init writes a new descriptor
package_init(d, q, io) ==
    IF io THEN [status |-> "Err", disk |-> d]
    ELSE [status |-> "Ok", disk |-> [d EXCEPT !.tree[<<q.repo, q.pkg>>] = Fresh]]

Requests ==
    {q \in [op : {"create", "update"}, token : Tokens, repo : RepoIds,
            pkg : Pkgs, version : VersionStrings] :
        q.op = "create" => q.version = "1.0.0"}

\* faulty variant: a return with an error forgets the guard
Finish_LeaksOnError(m, status) ==
    /\ pc' = [pc EXCEPT ![m] = "done"]
    /\ res' = [res EXCEPT ![m] = status]
    /\ lock' = IF status = "ok" THEN Unlocked ELSE lock

\* the request ends: the guard is dropped and the response is sent
Finish(m, status) ==
    /\ pc' = [pc EXCEPT ![m] = "done"]
    /\ res' = [res EXCEPT ![m] = status]
    /\ lock' = Unlocked

\* a request arrives: authentication and the repository check, then write()
Begin(m, Q) ==
    /\ phase = "serving"
    /\ pc[m] \in {"idle", "done"}
    /\ nreq < MaxReqs
    /\ nreq' = nreq + 1
    /\ \E q \in Q :
        /\ req' = [req EXCEPT ![m] = q]
        /\ trace' = [trace EXCEPT ![m] = {}]
        /\ IF ~check_bearer_token(q.token)
           THEN /\ pc' = [pc EXCEPT ![m] = "done"]
                /\ res' = [res EXCEPT ![m] = "unauthorized"]
           ELSE IF ~Configured(q.repo)
           THEN /\ pc' = [pc EXCEPT ![m] = "done"]
                /\ res' = [res EXCEPT ![m] = "notfound"]
           ELSE /\ pc' = [pc EXCEPT ![m] = "waiting"]
                /\ res' = [res EXCEPT ![m] = "none"]
    /\ UNCHANGED <<rebuild, DIVVUN_INST_REPO_INDEX, SERVER_STATUS, phase, commits, remote, disk, head_ref, lock, cache, tick,
                   dl, resp>>

\* GIT_REPO.get().unwrap().write() returns, and the existence check
Lock(m) ==
    /\ pc[m] = "waiting"
    /\ CanWrite
    /\ trace' = [trace EXCEPT ![m] = {"lock"}]
    /\ LET early == Precheck(req[m].op, disk, <<req[m].repo, req[m].pkg>>)
       IN  IF early # ""
           THEN Finish(m, early)
           ELSE /\ lock' = [lock EXCEPT !.writer = m]
                /\ pc' = [pc EXCEPT ![m] = "sync"]
                /\ UNCHANGED res
    /\ UNCHANGED <<rebuild, DIVVUN_INST_REPO_INDEX, SERVER_STATUS, phase, commits, remote, disk, head_ref, req, cache, tick,
                   dl, resp, nreq>>

\* guard.cleanup(&config).map_err(InternalServerError)?
Sync(m) ==
    /\ pc[m] = "sync"
    /\ trace' = [trace EXCEPT ![m] = @ \cup {"cleanup"}]
    /\ \E o \in CleanupOutcomes :
        LET c == cleanup(disk, o)
        IN  /\ disk' = c.disk
            /\ IF c.ok
               THEN /\ pc' = [pc EXCEPT ![m] = "edit"]
                    /\ UNCHANGED <<res, lock>>
               ELSE Finish(m, "servererr")
    /\ UNCHANGED <<rebuild, DIVVUN_INST_REPO_INDEX, SERVER_STATUS, phase, commits, remote, head_ref, req, cache, tick, dl, resp, nreq>>

\* package::init::init(..).map_err(BadRequest)? or
\* modify_repo_metadata(..).map_err(InternalServerError)?
Edit(m) ==
    /\ pc[m] = "edit"
    /\ \E io \in BOOLEAN :
        LET e == IF req[m].op = "create" THEN package_init(disk, req[m], io)
                 ELSE modify_repo_metadata(disk, req[m], io)
        IN  /\ disk' = e.disk
            /\ trace' = [trace EXCEPT ![m] =
                  IF e.status = "VersionError" THEN @ ELSE @ \cup {"edit"}]
            /\ IF e.status = "Ok"
               THEN /\ pc' = [pc EXCEPT ![m] = "add"]
                    /\ UNCHANGED <<res, lock>>
               ELSE IF req[m].op = "create" THEN Finish(m, "badrequest")
               ELSE Finish(m, UpdateErrorStatus(e.status))
    /\ UNCHANGED <<rebuild, DIVVUN_INST_REPO_INDEX, SERVER_STATUS, phase, commits, remote, head_ref, req, cache, tick, dl, resp, nreq>>

\* guard.add_package_to_index_tree(..).map_err(InternalServerError)?
Stage(m) ==
    /\ pc[m] = "add"
    /\ trace' = [trace EXCEPT ![m] = @ \cup {"add"}]
    /\ \E o \in Outcomes :
        /\ disk' = Apply(o, disk, git_add(disk, <<req[m].repo, req[m].pkg>>))
        /\ IF o = "err" THEN Finish(m, "servererr")
           ELSE /\ pc' = [pc EXCEPT ![m] = "commit"]
                /\ UNCHANGED <<res, lock>>
    /\ UNCHANGED <<rebuild, DIVVUN_INST_REPO_INDEX, SERVER_STATUS, phase, commits, remote, head_ref, req, cache, tick, dl, resp, nreq>>

\* guard.commit_create / commit_update: git commit, then head_ref is re-read
Commit(m) ==
    /\ pc[m] = "commit"
    /\ trace' = [trace EXCEPT ![m] = @ \cup {"commit"}]
    /\ \E o \in Outcomes :
        /\ (o = "ok" /\ HasStaged(disk)) => Room
        /\ IF o = "ok" /\ HasStaged(disk)
           THEN /\ commits' = Append(commits, NewCommit(disk))
                /\ disk' = [disk EXCEPT !.head = Len(commits) + 1]
           ELSE UNCHANGED <<commits, disk>>
        /\ IF o = "err"
           THEN /\ Finish(m, "servererr")
                /\ UNCHANGED head_ref
           ELSE /\ head_ref' = git_revparse_head(disk')
                /\ pc' = [pc EXCEPT ![m] = "push"]
                /\ UNCHANGED <<res, lock>>
    /\ UNCHANGED <<rebuild, DIVVUN_INST_REPO_INDEX, SERVER_STATUS, phase, remote, req, cache, tick, dl, resp, nreq>>

\* faulty variant: the handler publishes a snapshot itself after its push
Push_Publishes(m) ==
    /\ pc[m] = "push"
    /\ trace' = [trace EXCEPT ![m] = @ \cup {"push"}]
    /\ \E o \in Outcomes :
        /\ IF o = "ok" /\ PushAccepted(disk)
           THEN /\ remote' = disk.head
                /\ disk' = [disk EXCEPT !.origin = disk.head]
           ELSE UNCHANGED <<remote, disk>>
        /\ Finish(m, IF o = "err" THEN "servererr" ELSE "ok")
    /\ cache' = [cache EXCEPT ![req[m].repo] =
                    [head_ref |-> head_ref,
                     package_index |->
                         build_index(commits[disk.head].tree, req[m].repo)]]
    /\ UNCHANGED <<rebuild, DIVVUN_INST_REPO_INDEX, SERVER_STATUS, phase, commits, head_ref, req, tick, dl, resp, nreq>>

\* guard.push(&config).map_err(InternalServerError)?, then the success response
Push(m) ==
    /\ pc[m] = "push"
    /\ trace' = [trace EXCEPT ![m] = @ \cup {"push"}]
    /\ \E o \in Outcomes :
        /\ IF o = "ok" /\ PushAccepted(disk)
           THEN /\ remote' = disk.head
                /\ disk' = [disk EXCEPT !.origin = disk.head]
           ELSE UNCHANGED <<remote, disk>>
        /\ Finish(m, IF o = "err" THEN "servererr" ELSE "ok")
    /\ UNCHANGED <<rebuild, DIVVUN_INST_REPO_INDEX, SERVER_STATUS, phase, commits, head_ref, req, cache, tick, dl, resp, nreq>>

(***************************************************************************)
(* The refresh task: refresh_indexes_forever / refresh_indexes.            *)
(***************************************************************************)
\* faulty variant: the export is made without the shared lock
TickStart_NoGuard ==
    /\ phase = "serving"
    /\ tick.pc = "idle"
    /\ tick' = [tick EXCEPT !.pc = "export"]
    /\ UNCHANGED <<rebuild, DIVVUN_INST_REPO_INDEX, SERVER_STATUS, phase, commits,
                   remote, disk, head_ref, lock, pc, req, res, trace, cache, dl,
                   resp, nreq>>

\* the sleep ends and git_repo_mutex.read() returns
TickStart ==
    /\ phase = "serving"
    /\ tick.pc = "idle"
    /\ CanRead
    /\ lock' = [lock EXCEPT !.readers = @ \cup {"tick"}]
    /\ tick' = [tick EXCEPT !.pc = "export"]
    /\ UNCHANGED <<rebuild, DIVVUN_INST_REPO_INDEX, SERVER_STATUS, phase, commits, remote, disk, head_ref, pc, req, res, trace,
                   cache, dl, resp, nreq>>

\* faulty variant: the guard lives until refresh_indexes returns
TickExport_KeepsGuard ==
    /\ tick.pc = "export"
    /\ \E o \in Outcomes :
        LET e == shallow_clone_to_tempdir(disk, o)
        IN  /\ tick' = IF e.ok
                       THEN [pc |-> "reconciling", head_ref |-> head_ref,
                             tmpdir |-> e.tmpdir, todo |-> Repos,
                             clone_ok |-> (o = "ok")]
                       ELSE IdleTick
            /\ lock' = IF e.ok THEN lock
                       ELSE [lock EXCEPT !.readers = @ \ {"tick"}]
    /\ UNCHANGED <<rebuild, DIVVUN_INST_REPO_INDEX, SERVER_STATUS, phase, commits, remote,
                   disk, head_ref, pc, req, res, trace, cache, dl, resp, nreq>>

\* (guard.shallow_clone_to_tempdir()?, guard.head_ref.clone()), guard dropped
TickExport ==
    /\ tick.pc = "export"
    /\ lock' = [lock EXCEPT !.readers = @ \ {"tick"}]
    /\ \E o \in Outcomes :
        LET e == shallow_clone_to_tempdir(disk, o)
        IN  tick' = IF e.ok
                    THEN [pc |-> "reconciling", head_ref |-> head_ref,
                          tmpdir |-> e.tmpdir, todo |-> Repos,
                          clone_ok |-> (o = "ok")]
                    ELSE IdleTick
    /\ UNCHANGED <<rebuild, DIVVUN_INST_REPO_INDEX, SERVER_STATUS, phase, commits, remote, disk, head_ref, pc, req, res, trace,
                   cache, dl, resp, nreq>>

\* faulty variant: the loop rebuilds a slot whose version is the export's
TickRepo_NoSkip(r) ==
    /\ tick.pc = "reconciling"
    /\ r \in tick.todo
    /\ \E io \in BOOLEAN :
        LET g == generate_repo_index(tick.tmpdir, r, io)
            rest == tick.todo \ {r}
        IN  IF ~g.ok
            THEN /\ tick' = [IdleTick EXCEPT !.pc = "dead"]
                 /\ UNCHANGED cache
            ELSE /\ cache' = [cache EXCEPT ![r] =
                                [head_ref |-> tick.head_ref,
                                 package_index |-> g.index]]
                 /\ tick' = IF rest = {} THEN IdleTick
                            ELSE [tick EXCEPT !.todo = rest]
    /\ UNCHANGED <<rebuild, DIVVUN_INST_REPO_INDEX, SERVER_STATUS, phase, commits, remote, disk, head_ref, lock,
                   pc, req, res, trace, dl, resp, nreq>>

\* faulty variant: a publish replaces the tag and leaves the catalog
TickRepo_TagOnly(r) ==
    /\ tick.pc = "reconciling"
    /\ r \in tick.todo
    /\ \E io \in BOOLEAN :
        LET stale == cache[r].head_ref # tick.head_ref
            g == generate_repo_index(tick.tmpdir, r, io)
            rest == tick.todo \ {r}
        IN  IF stale /\ ~g.ok
            THEN /\ tick' = [IdleTick EXCEPT !.pc = "dead"]
                 /\ UNCHANGED cache
            ELSE /\ cache' = IF stale
                             THEN [cache EXCEPT ![r].head_ref = tick.head_ref]
                             ELSE cache
                 /\ tick' = IF rest = {} THEN IdleTick
                            ELSE [tick EXCEPT !.todo = rest]
    /\ UNCHANGED <<rebuild, DIVVUN_INST_REPO_INDEX, SERVER_STATUS, phase, commits, remote, disk, head_ref, lock,
                   pc, req, res, trace, dl, resp, nreq>>

\* faulty variant: a snapshot is tagged with head_ref as it is when published
TickRepo_TagsLate(r) ==
    /\ tick.pc = "reconciling"
    /\ r \in tick.todo
    /\ \E io \in BOOLEAN :
        LET stale == cache[r].head_ref # tick.head_ref
            g == generate_repo_index(tick.tmpdir, r, io)
            rest == tick.todo \ {r}
        IN  IF stale /\ ~g.ok
            THEN /\ tick' = [IdleTick EXCEPT !.pc = "dead"]
                 /\ UNCHANGED cache
            ELSE /\ cache' = IF stale
                             THEN [cache EXCEPT ![r] =
                                     [head_ref |-> head_ref,
                                      package_index |-> g.index]]
                             ELSE cache
                 /\ tick' = IF rest = {} THEN IdleTick
                            ELSE [tick EXCEPT !.todo = rest]
    /\ UNCHANGED <<rebuild, DIVVUN_INST_REPO_INDEX, SERVER_STATUS, phase, commits, remote, disk, head_ref, lock,
                   pc, req, res, trace, dl, resp, nreq>>

\* one iteration of the loop over repo_indexes
TickRepo(r) ==
    /\ tick.pc = "reconciling"
    /\ r \in tick.todo
    /\ \E io \in BOOLEAN :
        LET stale == cache[r].head_ref # tick.head_ref
            g == generate_repo_index(tick.tmpdir, r, io)
            rest == tick.todo \ {r}
        IN  IF stale /\ ~g.ok
            THEN /\ tick' = [IdleTick EXCEPT !.pc = "dead"]   \* unwrap() panics
                 /\ UNCHANGED cache
            ELSE /\ cache' = IF stale
                             THEN [cache EXCEPT ![r] =
                                     [head_ref |-> tick.head_ref,
                                      package_index |-> g.index]]
                             ELSE cache
                 /\ tick' = IF rest = {} THEN IdleTick
                            ELSE [tick EXCEPT !.todo = rest]
    /\ UNCHANGED <<rebuild, DIVVUN_INST_REPO_INDEX, SERVER_STATUS, phase, commits, remote, disk, head_ref, lock, pc, req, res,
                   trace, dl, resp, nreq>>

(***************************************************************************)
(* The read handlers.                                                      *)
(***************************************************************************)
ChannelOf(c) == IF c = NoParam THEN "stable" ELSE c
Min(S) == CHOOSE x \in S : \A y \in S : x <= y

\* faulty variant: the last matching release of the descriptor is taken
download_match_Last(desc, platform, channel) ==
    LET rel == desc.release
        HasTarget(i) == \E j \in 1..Len(rel[i].target) :
                            rel[i].target[j].platform = platform
        hits == {i \in 1..Len(rel) :
                    /\ ChannelOf(rel[i].channel) = ChannelOf(channel)
                    /\ HasTarget(i)}
    IN  IF hits = {} THEN <<>>
        ELSE LET t == rel[CHOOSE i \in hits : \A k \in hits : k <= i].target
             IN  t[Min({j \in 1..Len(t) : t[j].platform = platform})].url

\* the loop of download over descriptor.release: the first release of the
\* channel that has a target for the platform, and its first such target
download_match(desc, platform, channel) ==
    LET rel == desc.release
        HasTarget(i) == \E j \in 1..Len(rel[i].target) :
                            rel[i].target[j].platform = platform
        hits == {i \in 1..Len(rel) :
                    /\ ChannelOf(rel[i].channel) = ChannelOf(channel)
                    /\ HasTarget(i)}
    IN  IF hits = {} THEN <<>>
        ELSE LET t == rel[Min(hits)].target
             IN  t[Min({j \in 1..Len(t) : t[j].platform = platform})].url

Response(op, status) == [NoResp EXCEPT !.op = op, !.status = status]
To(q, response) == [response EXCEPT !.q = q]

\* download up to GIT_REPO.get().unwrap().read(); has_platform: the query
\* carries a platform (its value and the channel are drawn where they are used)
DownloadStart ==
    /\ phase = "serving"
    /\ dl.pc = "idle"
    /\ \E r \in RepoIds, p \in Pkgs, has_platform \in BOOLEAN :
        IF ~Configured(r)
        THEN /\ resp' = To(Asked(r, p, NoParam, NoParam, NoParam),
                           Response("download", "notfound"))
             /\ UNCHANGED <<dl, lock>>
        ELSE IF ~has_platform
        THEN /\ resp' = To(Asked(r, p, NoParam, NoParam, NoParam),
                           Response("download", "badrequest"))
             /\ UNCHANGED <<dl, lock>>
        ELSE /\ CanRead
             /\ lock' = [lock EXCEPT !.readers = @ \cup {"dl"}]
             /\ dl' = [pc |-> "reading", repo |-> r, pkg |-> p]
             /\ UNCHANGED resp
    /\ UNCHANGED <<rebuild, DIVVUN_INST_REPO_INDEX, SERVER_STATUS, phase, commits, remote, disk, head_ref, pc, req, res, trace,
                   cache, tick, nreq>>

\* download from read_to_string to the response; the guard is dropped
DownloadRead ==
    /\ dl.pc = "reading"
    /\ \E platform \in Platforms, channel \in Channels :
        LET desc == disk.tree[<<dl.repo, dl.pkg>>]
            url == download_match(desc, platform, channel)
        IN  resp' = To(Asked(dl.repo, dl.pkg, platform, channel, NoParam),
                       IF ~desc.present \/ ~desc.valid
                       THEN Response("download", "servererr")
                       ELSE IF url = <<>> THEN Response("download", "notfound")
                       ELSE [Response("download", "redirect") EXCEPT !.url = url])
    /\ lock' = [lock EXCEPT !.readers = @ \ {"dl"}]
    /\ dl' = IdleDl
    /\ UNCHANGED <<rebuild, DIVVUN_INST_REPO_INDEX, SERVER_STATUS, phase, commits, remote, disk, head_ref, pc, req, res, trace,
                   cache, tick, nreq>>

\* package_descriptor: read_to_string of config.git_path/<repo>/packages/<pkg>/index.toml
package_descriptor(r, p) ==
    /\ phase = "serving"
    /\ resp' = To(Asked(r, p, NoParam, NoParam, NoParam),
                  IF Configured(r) /\ disk.tree[<<r, p>>].present
                  THEN [Response("package_descriptor", "ok") EXCEPT
                           !.desc = disk.tree[<<r, p>>]]
                  ELSE Response("package_descriptor", "notfound"))
    /\ UNCHANGED <<rebuild, DIVVUN_INST_REPO_INDEX, SERVER_STATUS, phase, commits, remote, disk, head_ref, lock, pc, req, res,
                   trace, cache, tick, dl, nreq>>

\* faulty variant: only one repository is known to the catalog request
repository_index_bin_FirstOnly(r) ==
    /\ phase = "serving"
    /\ resp' = To(Asked(r, NoParam, NoParam, NoParam, ""),
                  IF r = "divvun-installer"
                  THEN [Response("repository_index_bin", "ok") EXCEPT
                           !.index = cache[r].package_index]
                  ELSE Response("repository_index_bin", "notfound"))
    /\ UNCHANGED <<rebuild, DIVVUN_INST_REPO_INDEX, SERVER_STATUS, phase, commits, remote, disk, head_ref, lock,
                   pc, req, res, trace, cache, tick, dl, nreq>>

\* repository_index_bin for a user agent other than pahkat-client/0.1.0
repository_index_bin(r) ==
    /\ phase = "serving"
    /\ resp' = To(Asked(r, NoParam, NoParam, NoParam, ""),
                  IF r \in DOMAIN cache
                  THEN [Response("repository_index_bin", "ok") EXCEPT
                           !.index = cache[r].package_index]
                  ELSE Response("repository_index_bin", "notfound"))
    /\ UNCHANGED <<rebuild, DIVVUN_INST_REPO_INDEX, SERVER_STATUS, phase, commits, remote, disk, head_ref, lock, pc, req, res,
                   trace, cache, tick, dl, nreq>>

\* the catalog for pahkat-client/0.1.0.  The code looks up the two packages
\* divvun-installer and pahkat-service of the repository; the packages of
\* the model stand for them.
LegacyAgent == "pahkat-client/0.1.0"
\* .filter(|x| x.channel.is_none() && x.target.iter().any(windows))
LegacyEligible(desc) ==
    {i \in 1..Len(desc.release) :
        /\ desc.release[i].channel = NoParam
        /\ \E j \in 1..Len(desc.release[i].target) :
               desc.release[i].target[j].platform = "windows"}
\* .max_by_key(version): the last of the releases with the highest version
LegacyPick(desc) ==
    CHOOSE i \in LegacyEligible(desc) :
        \A k \in LegacyEligible(desc) :
            \/ VersionRank(desc.release[k].version)
                   < VersionRank(desc.release[i].version)
            \/ /\ VersionRank(desc.release[k].version)
                      = VersionRank(desc.release[i].version)
               /\ k <= i
\* "{config.url}/1AAB4845-.../<package>-{NONCE}.exe"
WorkaroundUrl(p) == <<"https://reposrv", "1AAB4845", p, "NONCE">>
\* the release handed to the old client: version 99.0.0 and the first
\* windows target alone, its URL rewritten.  payload_of names the release
\* whose payload (installer kind, product code, size) the target still has.
WorkaroundRelease(p, rel) ==
    [version |-> "99.0.0", channel |-> rel.channel,
     target |-> <<[platform |-> "windows", url |-> WorkaroundUrl(p),
                   payload_of |-> rel.version]>>]
\* generate_010_workaround_index(..).unwrap(): ok is FALSE where a file
\* cannot be read or parsed (Err) or has no eligible release (None)
generate_010_workaround_index(tree, r) ==
    IF \A p \in Pkgs : /\ tree[<<r, p>>].present
                       /\ tree[<<r, p>>].valid
                       /\ LegacyEligible(tree[<<r, p>>]) # {}
    THEN [ok |-> TRUE,
          index |-> {[id |-> p,
                      release |-> <<WorkaroundRelease(p,
                          tree[<<r, p>>].release[LegacyPick(tree[<<r, p>>])])>>] :
                     p \in Pkgs}]
    ELSE [ok |-> FALSE, index |-> {}]
generate_empty_index == {}

\* faulty variant: the old client is told from the others by nothing
repository_index_bin_legacy_AsOthers(r) ==
    /\ phase = "serving"
    /\ resp' = To(Asked(r, NoParam, NoParam, NoParam, LegacyAgent),
                  IF r \in DOMAIN cache
                  THEN [Response("repository_index_bin", "ok") EXCEPT
                           !.index = cache[r].package_index]
                  ELSE Response("repository_index_bin", "notfound"))
    /\ UNCHANGED <<rebuild, DIVVUN_INST_REPO_INDEX, SERVER_STATUS, phase, commits, remote,
                   disk, head_ref, lock, pc, req, res, trace, cache, tick, dl,
                   nreq>>

\* repository_index_bin for the user agent pahkat-client/0.1.0: the working
\* directory is read without GIT_REPO's lock; a panic fails the request and
\* leaves the cell unset
repository_index_bin_legacy(r) ==
    /\ phase = "serving"
    /\ LET q == Asked(r, NoParam, NoParam, NoParam, LegacyAgent)
           built == generate_010_workaround_index(disk.tree, r)
       IN  IF r = "divvun-installer"
           THEN IF DIVVUN_INST_REPO_INDEX.set
                THEN /\ resp' = To(q, [Response("repository_index_bin", "ok")
                             EXCEPT !.index = DIVVUN_INST_REPO_INDEX.index])
                     /\ UNCHANGED DIVVUN_INST_REPO_INDEX
                ELSE IF built.ok
                THEN /\ DIVVUN_INST_REPO_INDEX' =
                            [set |-> TRUE, index |-> built.index]
                     /\ resp' = To(q, [Response("repository_index_bin", "ok")
                             EXCEPT !.index = built.index])
                ELSE /\ resp' = To(q, Response("repository_index_bin", "panic"))
                     /\ UNCHANGED DIVVUN_INST_REPO_INDEX
           ELSE /\ resp' = To(q, [Response("repository_index_bin", "ok")
                        EXCEPT !.index = generate_empty_index])
                /\ UNCHANGED DIVVUN_INST_REPO_INDEX
    /\ UNCHANGED <<rebuild, SERVER_STATUS, phase, commits, remote, disk, head_ref,
                   lock, pc, req, res, trace, cache, tick, dl, nreq>>

\* a step of the handler of m once the request is in
Step(m) ==
    \/ Lock(m)
    \/ Sync(m)
    \/ Edit(m)
    \/ Stage(m)
    \/ Commit(m)
    \/ Push(m)
\* every step of the request task m
Mutation(m, Q) ==
    \/ Begin(m, Q)
    \/ Lock(m)
    \/ Sync(m)
    \/ Edit(m)
    \/ Stage(m)
    \/ Commit(m)
    \/ Push(m)

Next ==
    \/ RemoteAdvance
    \/ init_repo_indexes
    \/ Mutation("m1", Requests)
    \/ TickStart
    \/ TickExport
    \/ \E r \in Repos : TickRepo(r)

Spec == Init /\ [][Next]_vars

\* the service together with its read handlers
\* a read handler runs in one step; its response is looked at in the state it
\* leaves and is delivered before the next step of anyone
Deliver ==
    /\ resp # NoResp
    /\ resp' = NoResp
    /\ UNCHANGED <<rebuild, DIVVUN_INST_REPO_INDEX, SERVER_STATUS, phase, commits, remote, disk, head_ref, lock, pc, req, res,
                   trace, cache, tick, dl, nreq>>

Quiet == resp = NoResp

NextRead ==
    \/ Quiet /\ RemoteAdvance
    \/ Quiet /\ init_repo_indexes
    \/ Quiet /\ Mutation("m1", Requests)
    \/ Quiet /\ TickStart
    \/ Quiet /\ TickExport
    \/ Quiet /\ \E r \in Repos : TickRepo(r)
    \/ Quiet /\ DownloadStart
    \/ Quiet /\ DownloadRead
    \/ Quiet /\ \E r \in RepoIds, p \in Pkgs : package_descriptor(r, p)
    \/ Quiet /\ \E r \in RepoIds : repository_index_bin(r)
    \/ Deliver
SpecRead == Init /\ [][NextRead]_vars

\* two request tasks serving mutations at once, with downloads as the shared
\* holders around them
CoreRequests ==
    {q \in Requests : check_bearer_token(q.token) /\ Configured(q.repo)}

NextLock ==
    \/ Quiet /\ init_repo_indexes
    \/ Quiet /\ \E m \in Procs : Mutation(m, CoreRequests)
    \/ Quiet /\ DownloadStart
    \/ Quiet /\ DownloadRead
    \/ Deliver
SpecLock == Init /\ [][NextLock]_vars

\* the mutation handlers alone, beside the remote and the startup
NextMut ==
    \/ RemoteAdvance
    \/ init_repo_indexes
    \/ Mutation("m1", Requests)
SpecMut == Init /\ [][NextMut]_vars

\* a mutation, the refresh task and the snapshot reads
NextSnap ==
    \/ Quiet /\ init_repo_indexes
    \/ Quiet /\ Mutation("m1", CoreRequests)
    \/ Quiet /\ TickStart
    \/ Quiet /\ TickExport
    \/ Quiet /\ \E r \in Repos : TickRepo(r)
    \/ Quiet /\ \E r \in RepoIds : repository_index_bin(r)
    \/ Deliver
SpecSnap == Init /\ [][NextSnap]_vars

\* the startup rebuild, the refresh task and the read handlers over a
\* workspace whose files other clients wrote
NextFiles ==
    \/ Quiet /\ init_repo_indexes
    \/ Quiet /\ TickStart
    \/ Quiet /\ TickExport
    \/ Quiet /\ \E r \in Repos : TickRepo(r)
    \/ Quiet /\ DownloadStart
    \/ Quiet /\ DownloadRead
    \/ Quiet /\ \E r \in RepoIds : repository_index_bin(r)
    \/ Deliver
SpecFiles == InitFiles /\ [][NextFiles]_vars

\* creates and the refresh task over a workspace with bad package descriptors
CreateRequests == {q \in CoreRequests : q.op = "create"}
NextRebuild ==
    \/ init_repo_indexes
    \/ Mutation("m1", CreateRequests)
    \/ TickStart
    \/ TickExport
    \/ \E r \in Repos : TickRepo(r)
SpecRebuild == InitRebuild /\ [][NextRebuild]_vars

\* updates of the package the old client installs, the refresh task and
\* the catalog reads of old and new clients
LegacyTrees ==
    {BaseTree,
     [BaseTree EXCEPT ![<<"divvun-installer", "p">>] =
         AddRelease(Fresh, Release("divvun-installer", "p", "1.0.0", NoParam,
                                   "windows"))]}
LegacyRequests ==
    {q \in [op : {"update"}, token : {ServerToken}, repo : {"divvun-installer"},
            pkg : Pkgs, version : {"1.0.0", "2.0.0"}] : TRUE}
InitLegacy == InitFrom(LegacyTrees)
NextLegacy ==
    \/ Quiet /\ init_repo_indexes
    \/ Quiet /\ Mutation("m1", LegacyRequests)
    \/ Quiet /\ TickStart
    \/ Quiet /\ TickExport
    \/ Quiet /\ \E r \in Repos : TickRepo(r)
    \/ Quiet /\ \E r \in RepoIds : repository_index_bin(r)
    \/ Quiet /\ \E r \in RepoIds : repository_index_bin_legacy(r)
    \/ Deliver
SpecLegacy == InitLegacy /\ [][NextLegacy]_vars

\* the tasks that take the lock, scheduled fairly: a response is delivered
\* at once, and a handler step that is possible again and again is taken
\* (the guards are held over synchronous code only); the refresh task and
\* the downloads come back for ever
NextFair ==
    \/ Quiet /\ init_repo_indexes
    \/ Quiet /\ Mutation("m1", CreateRequests)
    \/ Quiet /\ TickStart
    \/ Quiet /\ TickExport
    \/ Quiet /\ \E r \in Repos : TickRepo(r)
    \/ Quiet /\ DownloadStart
    \/ Quiet /\ DownloadRead
    \/ Deliver
Fairness ==
    /\ WF_vars(Deliver)
    /\ SF_vars(Quiet /\ Step("m1"))
    /\ SF_vars(Quiet /\ TickExport)
    /\ SF_vars(Quiet /\ DownloadRead)
SpecFair == Init /\ [][NextFair]_vars /\ Fairness

\* the requests that between them leave the handlers by every return, and
\* the refresh task, scheduled fairly: a task that can take a step takes it
ExitRequests ==
    {q \in CoreRequests : q.op = "create" \/ q.version = "bogus"}
NextExit ==
    \/ init_repo_indexes
    \/ Mutation("m1", ExitRequests)
    \/ TickStart
    \/ TickExport
    \/ \E r \in Repos : TickRepo(r)
FairExit ==
    /\ WF_vars(init_repo_indexes)
    /\ WF_vars(Step("m1"))
    /\ WF_vars(TickStart)
    /\ WF_vars(TickExport)
SpecExit == Init /\ [][NextExit]_vars /\ FairExit

(***************************************************************************)
(* The catalog bytes of a packages directory.                              *)
(***************************************************************************)
\* the package directories below <tmpdir>/<repo>/packages and what their
\* index.toml holds
DirPkgs == {"a", "b", "c"}
DirDescs(p) ==
    {NoFile, Garbled, Fresh,
     [present |-> TRUE, valid |-> TRUE,
      release |-> <<Release("r2", p, "1.0.0", NoParam, "windows")>>]}
Dirs == {f \in [DirPkgs -> UNION {DirDescs(p) : p \in DirPkgs}] :
            \A p \in DirPkgs : f[p] \in DirDescs(p)}
\* std::fs::read_dir: every entry once, in an order the platform and the
\* file system decide
read_dir(S) ==
    {q \in [1..Cardinality(S) -> S] :
        \A i, j \in 1..Cardinality(S) : i # j => q[i] # q[j]}
\* .filter_map(..).collect::<Vec<Package>>(): the packages that parse, in
\* the order of the listing
RECURSIVE collect_packages(_, _)
collect_packages(files, order) ==
    IF order = <<>> THEN <<>>
    ELSE LET p == Head(order)
             rest == collect_packages(files, Tail(order))
         IN  IF files[p].present /\ files[p].valid
             THEN <<[id |-> p, release |-> files[p].release]>> \o rest
             ELSE rest
\* the encoding of one package: its id, the number of its releases and the
\* version of each
RECURSIVE encode_releases(_)
encode_releases(release) ==
    IF release = <<>> THEN <<>>
    ELSE <<Head(release).version>> \o encode_releases(Tail(release))
encode_package(pkg) ==
    <<pkg.id, Len(pkg.release)>> \o encode_releases(pkg.release)
\* indexing::build_index: the packages are encoded one after the other in
\* the order of the collection, behind their number
RECURSIVE encode_packages(_)
encode_packages(packages) ==
    IF packages = <<>> THEN <<>>
    ELSE encode_package(Head(packages)) \o encode_packages(Tail(packages))
indexing_build_index(packages) == <<Len(packages)>> \o encode_packages(packages)
\* generate_repo_index down to index.to_vec()
generate_repo_index_bytes(files, order) ==
    indexing_build_index(collect_packages(files, order))

\* one rebuild of the catalog of the directory
Rebuild ==
    /\ Len(rebuild.built) < MaxRebuilds
    /\ \E order \in read_dir(DirPkgs) :
        rebuild' = [rebuild EXCEPT !.built =
                       Append(@, generate_repo_index_bytes(rebuild.files, order))]
    /\ UNCHANGED <<DIVVUN_INST_REPO_INDEX, SERVER_STATUS, phase, commits, remote,
                   disk, head_ref, lock, pc, req, res, trace, cache, tick, dl,
                   resp, nreq>>
InitIndex ==
    /\ phase = "boot"
    /\ commits = <<[tree |-> BaseTree, parent |-> 0]>>
    /\ remote = 1
    /\ disk = [tree |-> BaseTree, index |-> BaseTree, head |-> 1, origin |-> 1]
    /\ head_ref = 0
    /\ lock = Unlocked
    /\ pc = [m \in Procs |-> "idle"]
    /\ req = [m \in Procs |-> NoReq]
    /\ res = [m \in Procs |-> "none"]
    /\ trace = [m \in Procs |-> {}]
    /\ cache = [r \in Repos |-> Placeholder]
    /\ tick = IdleTick
    /\ dl = IdleDl
    /\ resp = NoResp
    /\ nreq = 0
    /\ SERVER_STATUS = NoStatus
    /\ DIVVUN_INST_REPO_INDEX = Unset
    /\ \E f \in Dirs : rebuild = [files |-> f, built |-> <<>>]
NextIndex == Rebuild
SpecIndex == InitIndex /\ [][NextIndex]_vars

(***************************************************************************)
(* Claims.                                                                 *)
(***************************************************************************)
Locked == {"sync", "edit", "add", "commit", "push"}
File(m) == <<req[m].repo, req[m].pkg>>
Committed == commits[disk.head].tree

\* C1: every slot's catalog was built from the committed content of the commit
\* its version names.
C1_SnapshotMatchesVersion ==
    phase = "serving" =>
        \A r \in Repos :
            /\ cache[r].head_ref \in 1..Len(commits)
            /\ cache[r].package_index =
                   build_index(commits[cache[r].head_ref].tree, r)

\* C2: when a sync has succeeded, at startup or in a mutation, head_ref is the
\* commit the workspace was reset to.
C2_HeadRefFollowsSync ==
    [][/\ (phase = "boot" /\ phase' = "serving") => head_ref' = disk'.head
       /\ \A m \in Procs :
            (pc[m] = "sync" /\ pc'[m] = "edit") => head_ref' = disk'.head]_vars

\* C3: a mutation is between its sync and its push only while it holds the
\* exclusive lock; two mutations are never there together, an exclusive holder
\* never coexists with a shared holder, and a mutation runs a workspace step
\* only while it is the exclusive holder.
C3_Inv ==
    /\ \A m \in Procs : pc[m] \in Locked <=> lock.writer = m
    /\ \A m, n \in Procs : (pc[m] \in Locked /\ pc[n] \in Locked) => m = n
    /\ lock.writer # NoProc => lock.readers = {}
C3_ExclusiveMutations ==
    /\ []C3_Inv
    /\ [][\A m \in Procs :
            (trace'[m] # trace[m] /\ trace'[m] \cap WsSteps # {})
                => (lock.writer = m /\ \A n \in Procs \ {m} : pc[n] \notin Locked)
         ]_vars
C3_Witness ==
    /\ pc["m1"] = "push"
    /\ pc["m2"] = "waiting"
    /\ req["m1"].repo # req["m2"].repo

\* C4: a raw read of a workspace file holds the shared lock, so it never
\* completes while a mutation holds the exclusive lock.
C4_RawReadsHoldSharedLock ==
    resp.op = "package_descriptor" => lock.writer = NoProc

\* C5: the descriptor a download reads under the shared lock is the committed
\* content at the workspace's HEAD.
C5_DownloadReadsCommitted ==
    dl.pc = "reading" =>
        disk.tree[<<dl.repo, dl.pkg>>] = Committed[<<dl.repo, dl.pkg>>]

\* C6: a read of a published snapshot is possible while a mutation holds the
\* workspace lock, returns what a slot holds, and every slot holds a catalog
\* built from committed content (or from an empty export), never from the
\* working directory a mutation is editing.
CommittedCatalogs(r) ==
    {build_index(commits[c].tree, r) : c \in 1..Len(commits)}
        \cup {build_index(EmptyTree, r)}
C6_SnapshotReads ==
    /\ (lock.writer # NoProc /\ Quiet) =>
            \A r \in RepoIds : ENABLED repository_index_bin(r)
    /\ (resp.op = "repository_index_bin" /\ resp.status = "ok") =>
            \E r \in Repos : resp.index = cache[r].package_index
    /\ phase = "serving" =>
            \A r \in Repos : cache[r].package_index \in CommittedCatalogs(r)
C6_Witness ==
    /\ resp.op = "repository_index_bin"
    /\ resp.status = "ok"
    /\ \E m \in Procs : pc[m] = "commit" /\ disk.tree # Committed

\* C7: a create for a package whose descriptor exists returns a conflict and
\* its call changes nothing: no workspace step, the same head_ref, disk,
\* commits and remote.
C7_CreateConflict ==
    [][\A m \in Procs :
        (/\ pc[m] = "waiting"
         /\ pc'[m] # "waiting"
         /\ req[m].op = "create"
         /\ disk.tree[File(m)].present)
        => (/\ pc'[m] = "done"
            /\ res'[m] = "conflict"
            /\ trace'[m] \cap WsSteps = {}
            /\ UNCHANGED <<disk, head_ref, commits, remote, cache>>)]_vars
C7_Witness ==
    \E m \in Procs :
        /\ pc[m] = "done"
        /\ res[m] = "conflict"
        /\ req[m].op = "create"
        /\ disk.tree[File(m)].present

\* the step in which an update is rejected because its version does not parse
RejectsVersion(m) ==
    /\ pc[m] = "edit"
    /\ pc'[m] = "done"
    /\ req[m].op = "update"
    /\ ~ParseVersion(req[m].version)

\* C8: an update whose version does not parse returns an invalid-input error,
\* not a server error, and has run no commit and no push.
C8_BadVersionIsInvalidInput ==
    [][\A m \in Procs :
        RejectsVersion(m) =>
            (/\ res'[m] = "badrequest"
             /\ trace'[m] \cap {"commit", "push"} = {})]_vars

\* C9: a request rejected for invalid input has touched nothing: an update
\* with an unparsable version has run no workspace step, and a download
\* without a platform has not taken the lock.
C9_InvalidInputTouchesNothing ==
    [][/\ \A m \in Procs : RejectsVersion(m) => trace'[m] \cap WsSteps = {}
       /\ (resp'.op = "download" /\ resp'.status = "badrequest")
            => UNCHANGED <<disk, head_ref, lock, dl>>]_vars

\* C10: a create or update for an unconfigured repository is not-found without
\* taking the lock; an update for a package whose descriptor is missing is
\* not-found; neither runs a workspace step.
C10_Inv ==
    \A m \in Procs :
        /\ (pc[m] = "done" /\ check_bearer_token(req[m].token)
                /\ req[m].repo \notin Repos)
            => (res[m] = "notfound" /\ trace[m] = {})
        /\ (pc[m] = "done" /\ res[m] = "notfound")
            => trace[m] \cap WsSteps = {}
C10_NotFound ==
    /\ []C10_Inv
    /\ [][\A m \in Procs :
            (/\ pc[m] = "waiting"
             /\ pc'[m] # "waiting"
             /\ req[m].op = "update"
             /\ ~disk.tree[File(m)].present)
            => (/\ pc'[m] = "done"
                /\ res'[m] = "notfound"
                /\ trace'[m] \cap WsSteps = {}
                /\ UNCHANGED <<disk, head_ref, commits, remote>>)]_vars
C10_Witness ==
    \E m \in Procs :
        /\ pc[m] = "done"
        /\ res[m] = "notfound"
        /\ req[m].op = "update"
        /\ req[m].repo \in Repos
        /\ ~disk.tree[File(m)].present
        /\ trace[m] = {"lock"}

\* C11: a create or update whose push did not land at the remote (the remote
\* rejected it or could not be reached) after its commit is reported as
\* failed, never as success.
C11_PushFailureIsReported ==
    [][\A m \in Procs :
        (/\ pc[m] = "push"
         /\ pc'[m] = "done"
         /\ disk.head # remote
         /\ remote' # disk.head)
        => res'[m] # "ok"]_vars

\* the workspace after a sync whose three steps all took effect
Synced(d) == cleanup(d, <<"ok", "ok", "ok">>).disk

\* C12: a sync in which a step (clean, fetch, reset) did not take effect
\* fails, and its mutation ends with a server error before its edit.
C12_SyncFailureStops ==
    [][\A m \in Procs :
        (/\ pc[m] = "sync"
         /\ pc'[m] # "sync"
         /\ disk' # Synced(disk))
        => (pc'[m] = "done" /\ res'[m] = "servererr")]_vars

\* C13: when the workspace holds a commit that was never pushed, the next
\* sync whose three steps took effect has reset the workspace to the remote's
\* version and head_ref is that version, not the discarded commit.
C13_SyncHeals ==
    [][\A m \in Procs :
        (/\ pc[m] = "sync"
         /\ pc'[m] = "edit"
         /\ disk' = Synced(disk)
         /\ ~IsAncestor(disk.head, remote))
        => (disk'.head = remote /\ head_ref' = remote)]_vars

Running == {"export", "reconciling"}

\* C14: the refresh loop has no terminal state: a tick that ends, with or
\* without an error, ends in Idle.
C14_TickReturnsToIdle ==
    [][(tick.pc \in Running /\ tick'.pc \notin Running) => tick'.pc = "idle"]_vars

\* C15: within a tick, while more than one repository is still to be
\* compared, a step of the loop (a failed rebuild included) leaves the tick
\* reconciling the others.
C15_RebuildFailureIsLocal ==
    [][(/\ tick.pc = "reconciling"
        /\ Cardinality(tick.todo) > 1
        /\ tick' # tick)
       => (/\ tick'.pc = "reconciling"
           /\ Cardinality(tick'.todo) = Cardinality(tick.todo) - 1)]_vars

\* C16: a tick whose export did not make the copy publishes nothing: every
\* slot keeps the snapshot it held.
C16_FailedExportPublishesNothing ==
    [][(tick.pc = "reconciling" /\ ~tick.clone_ok) => cache' = cache]_vars

\* C17: during a tick a slot whose version equals the export's version is not
\* replaced.
C17_SameVersionIsSkipped ==
    [][\A r \in Repos :
        (tick.pc = "reconciling" /\ cache[r].head_ref = tick.head_ref)
            => cache'[r] = cache[r]]_vars
C17_Witness ==
    /\ tick.pc = "reconciling"
    /\ \E r \in Repos \ tick.todo :
        /\ cache[r].head_ref = tick.head_ref
        /\ cache[r].package_index # build_index(tick.tmpdir, r)

\* C18: a tick keeps the one export it made; every snapshot it publishes is
\* tagged with that export's version; when it completes, every slot's version
\* is the export's version.
C18_OneExportOneVersion ==
    [][/\ (tick.pc = "reconciling" /\ tick'.pc = "reconciling")
            => (tick'.tmpdir = tick.tmpdir /\ tick'.head_ref = tick.head_ref)
       /\ \A r \in Repos :
            (phase = "serving" /\ cache'[r] # cache[r])
                => (tick.pc = "reconciling" /\ cache'[r].head_ref = tick.head_ref)
       /\ (tick.pc = "reconciling" /\ tick'.pc = "idle")
            => \A r \in Repos : cache'[r].head_ref = tick.head_ref]_vars
C18_Witness ==
    /\ tick.pc = "idle"
    /\ \A r \in Repos : cache[r].head_ref = head_ref
    /\ head_ref = Len(commits)
    /\ head_ref > 1

\* C19: when a tick whose export was taken after a successful create or
\* update completes, the slot of the affected repository is tagged with the
\* new head_ref and its catalog lists the package.
C19_MutationBecomesVisible ==
    [][\A m \in Procs :
        (/\ tick.pc = "reconciling"
         /\ tick'.pc = "idle"
         /\ pc[m] = "done"
         /\ res[m] = "ok"
         /\ "push" \in trace[m]
         /\ remote = disk.head
         /\ tick.head_ref = head_ref
         /\ head_ref = disk.head
         /\ Committed[File(m)].present)
        => (/\ cache'[req[m].repo].head_ref = head_ref
            /\ \E x \in cache'[req[m].repo].package_index : x.id = req[m].pkg)]_vars

\* C20: a step of a create or update changes neither a slot nor the status.
C20_MutationLeavesCache ==
    [][(pc' # pc \/ nreq' # nreq) => UNCHANGED <<cache, SERVER_STATUS>>]_vars
C20_Witness ==
    \E m \in Procs :
        /\ pc[m] = "done"
        /\ res[m] = "ok"
        /\ "push" \in trace[m]
        /\ head_ref = disk.head
        /\ remote = disk.head
        /\ cache[req[m].repo].head_ref # head_ref
        /\ SERVER_STATUS[req[m].repo] # head_ref

C22_SlotsAreConfiguredRepos ==
    /\ DOMAIN cache = Repos
    /\ resp.op = "repository_index_bin" =>
        /\ resp.status = "notfound" <=> resp.q.repo \notin Repos
        /\ resp.status = "ok" <=> resp.q.repo \in Repos
C22_Witness ==
    /\ resp.op = "repository_index_bin"
    /\ resp.status = "notfound"
    /\ resp.q.repo \notin Repos
    /\ \E r \in Repos : cache[r].head_ref > 1

\* C23: whenever no publish is in progress the status maps every configured
\* repository to the version of the snapshot in its slot.
C23_StatusFollowsPublish ==
    (phase = "serving" /\ tick.pc # "reconciling")
        => SERVER_STATUS = server_status(cache)

\* C24: a publish replaces the version and the catalog of a slot together,
\* both from the one export of its tick, and a read returns the catalog of
\* the slot as it is, never an earlier one.
C24_Inv ==
    (resp.op = "repository_index_bin" /\ resp.status = "ok")
        => resp.index = cache[resp.q.repo].package_index
C24_AtomicPublish ==
    /\ []C24_Inv
    /\ [][\A r \in Repos :
            (phase = "serving" /\ cache'[r] # cache[r])
                => cache'[r] = [head_ref |-> tick.head_ref,
                                package_index |-> build_index(tick.tmpdir, r)]]_vars
C24_Witness ==
    /\ tick.pc = "reconciling"
    /\ resp.op = "repository_index_bin"
    /\ resp.status = "ok"
    /\ resp.q.repo \in Repos \ tick.todo
    /\ cache[resp.q.repo].head_ref = tick.head_ref
    /\ tick.head_ref > 1
    /\ resp.index # {}

\* the package directories of a repository whose descriptor is missing,
\* unreadable or unparseable
Bad(t, r) == {p \in Pkgs : ~t[<<r, p>>].present \/ ~t[<<r, p>>].valid}
Ids(index) == {x.id : x \in index}

\* C25: a rebuild over N package directories of which k have a bad descriptor
\* is not stopped by them and publishes exactly the N-k valid packages.
C25_Inv ==
    \A r \in Repos :
        (/\ tick.pc = "reconciling"
         /\ r \in tick.todo
         /\ cache[r].head_ref # tick.head_ref)
        => ENABLED (TickRepo(r) /\ cache'[r].head_ref = tick.head_ref)
C26_RepoDescriptorRequired ==
    [][\A r \in Repos :
        cache'[r] # cache[r] =>
            LET src == IF phase = "boot" THEN commits[disk'.head].tree
                       ELSE tick.tmpdir
            IN  src[<<r, RepoToml>>].present /\ src[<<r, RepoToml>>].valid]_vars

\* the release/target pairs of a descriptor that match a download request
Matches(desc, platform, channel) ==
    {m \in (1..Len(desc.release)) \X (1..3) :
        /\ m[2] <= Len(desc.release[m[1]].target)
        /\ (IF desc.release[m[1]].channel = NoParam THEN "stable"
            ELSE desc.release[m[1]].channel)
             = (IF channel = NoParam THEN "stable" ELSE channel)
        /\ desc.release[m[1]].target[m[2]].platform = platform}
\* the descriptor and the matches of the download that was just answered
Answered == disk.tree[<<resp.q.repo, resp.q.pkg>>]
AnsweredDownload ==
    /\ resp.op = "download"
    /\ resp.q.platform # NoParam
    /\ Answered.present
    /\ Answered.valid
AnsweredMatches == Matches(Answered, resp.q.platform, resp.q.channel)

IsSynthetic(index) ==
    /\ index # {}
    /\ \A e \in index :
        /\ Len(e.release) = 1
        /\ e.release[1].version = "99.0.0"
        /\ Len(e.release[1].target) = 1
        /\ e.release[1].target[1].platform = "windows"
        /\ e.release[1].target[1].url = WorkaroundUrl(e.id)

\* C28: a binary-catalog request of the client pahkat-client/0.1.0 is
\* answered with the synthetic catalog for divvun-installer and with an empty
\* catalog for every other repository id; every other user agent gets the
\* published catalog of the repository.  The code answers the old client's
\* request for divvun-installer with a panic while one of the packages it
\* looks up has no release without a channel for windows.
C28_LegacyClientGetsSynthetic ==
    resp.op = "repository_index_bin" =>
        IF resp.q.user_agent = LegacyAgent
        THEN /\ resp.status = "ok"
             /\ IF resp.q.repo = "divvun-installer"
                THEN IsSynthetic(resp.index)
                ELSE resp.index = {}
        ELSE \/ /\ resp.q.repo \in Repos
                /\ resp.status = "ok"
                /\ resp.index = cache[resp.q.repo].package_index
             \/ /\ resp.q.repo \notin Repos
                /\ resp.status = "notfound"

\* the commits whose content gives the synthetic catalog index
DerivedFrom(index) ==
    {c \in 1..Len(commits) :
        generate_010_workaround_index(commits[c].tree, "divvun-installer")
            = [ok |-> TRUE, index |-> index]}

\* C29: the synthetic catalog served to the old client, derived from
\* committed content, once a version of divvun-installer is published and the
\* working directory is clean at that version or a later one, is derived from
\* the published version or from a later one.  The code serves what the cell
\* got at the first request.
C29_LegacyCatalogIsCurrent ==
    ( /\ DerivedFrom(resp.index) # {}
      /\ resp.op = "repository_index_bin"
      /\ resp.q.user_agent = LegacyAgent
      /\ resp.q.repo = "divvun-installer"
      /\ resp.status = "ok"
      /\ pc["m1"] \in {"idle", "done"}
      /\ tick.pc = "idle"
      /\ disk.tree = commits[disk.head].tree
      /\ IsAncestor(cache["divvun-installer"].head_ref, disk.head) )
    => \E c \in DerivedFrom(resp.index) :
           IsAncestor(cache["divvun-installer"].head_ref, c)

\* a request of m is under way or over, and its token is not the server's
WrongToken(m) == pc[m] # "idle" /\ req[m].token # ServerToken
C30_Inv ==
    \A m \in Procs : WrongToken(m) =>
        /\ pc[m] = "done"
        /\ res[m] = "unauthorized"
        /\ trace[m] = {}
        /\ lock.writer # m

\* C30: a create or update request whose bearer token is not the server's
\* is rejected with 401 at once; it never waits for or holds the workspace
\* lock, and the step that receives it changes neither the working
\* directory, the commits, the remote, head_ref nor the snapshot slots.
C30_WrongTokenHasNoEffect ==
    /\ []C30_Inv
    /\ [][(nreq' # nreq /\ req'["m1"].token # ServerToken) =>
            UNCHANGED <<lock, disk, commits, remote, head_ref, cache,
                        SERVER_STATUS>>]_vars
C30_Witness ==
    /\ pc["m1"] = "done"
    /\ res["m1"] = "unauthorized"
    /\ req["m1"].token # ServerToken
    /\ Configured(req["m1"].repo)
    /\ disk.tree[<<req["m1"].repo, req["m1"].pkg>>].present
    /\ req["m1"].op = "update"

C31_Inv ==
    /\ ("tick" \in lock.readers) <=> (tick.pc = "export")
    /\ \A m \in Procs :
        ( /\ tick.pc = "reconciling"
          /\ pc[m] = "waiting"
          /\ lock.writer = NoProc
          /\ lock.readers \ {"tick"} = {} ) => ENABLED Lock(m)

\* C31: the refresh task holds the shared lock from read() to the end of
\* the export (the copy and the read of head_ref) and no longer; while it
\* rebuilds and publishes, a waiting mutation that no other task keeps out
\* gets the exclusive lock, and no step of the rebuild touches the lock.
C31_TickHoldsLockOnlyForExport ==
    /\ []C31_Inv
    /\ [][tick.pc = "reconciling" /\ tick' # tick => UNCHANGED lock]_vars
\* a create was received, locked, committed and answered while the rebuild
\* of an export taken before it was still going on
C31_Witness ==
    /\ tick.pc = "reconciling"
    /\ tick.todo = Repos
    /\ pc["m1"] = "done"
    /\ res["m1"] = "ok"
    /\ trace["m1"] = WsSteps \cup {"lock"}
    /\ head_ref # tick.head_ref
    /\ lock = Unlocked

\* C32: under fair scheduling a mutation that waits for the exclusive lock
\* gets it, however the refresh task and the downloads keep asking for the
\* shared lock.
C32_WriterIsNotStarved ==
    \A m \in {"m1"} : (pc[m] = "waiting") ~> ("lock" \in trace[m])
\* a mutation waits while both shared holders are inside
C32_Witness ==
    /\ pc["m1"] = "waiting"
    /\ lock.readers = {"tick", "dl"}

\* C33: the catalogs built from one unchanged packages directory are the
\* same bytes, whatever the order in which the directory is listed.  The
\* code keeps the order of the listing in the catalog.
C33_RebuildIsDeterministic ==
    \A i, j \in 1..Len(rebuild.built) : rebuild.built[i] = rebuild.built[j]

\* the mutation m is between write() and the drop of its guard
InCriticalSection(m) == pc[m] \in {"sync", "edit", "add", "commit", "push"}

\* C34: the export and the head_ref that tags it are taken under one shared
\* hold: from read() to the drop of the guard no mutation is inside its
\* critical section and nothing syncs, edits or commits, and what the
\* refresh task leaves the hold with is the clone of HEAD and the head_ref
\* of that moment.
C34_ExportAndVersionUnderOneHold ==
    /\ [](tick.pc = "export" => \A m \in Procs : ~InCriticalSection(m))
    /\ [][tick.pc = "export" =>
            /\ UNCHANGED <<disk, head_ref, commits>>
            /\ tick'.pc = "reconciling" =>
                   /\ tick'.head_ref = head_ref
                   /\ tick'.tmpdir \in {commits[disk.head].tree, EmptyTree}
                   /\ tick'.clone_ok => tick'.tmpdir = commits[disk.head].tree]_vars
\* an export was made while a mutation waited for the lock
C34_Witness ==
    /\ tick.pc = "reconciling"
    /\ tick.todo = Repos
    /\ tick.clone_ok
    /\ pc["m1"] = "waiting"
    /\ tick.head_ref = head_ref
    /\ tick.tmpdir = commits[disk.head].tree

\* C35: when commit_create or commit_update returns Ok, head_ref is the
\* commit that is checked out: the new commit where git commit recorded
\* one, and the HEAD it found where it recorded nothing.
C35_CommitSetsHeadRef ==
    [][\A m \in Procs :
         (pc[m] = "commit" /\ pc'[m] = "push") =>
             /\ head_ref' = disk'.head
             /\ IF commits' # commits
                THEN /\ head_ref' = Len(commits')
                     /\ commits'[head_ref'].parent = disk.head
                ELSE head_ref' = disk.head]_vars
\* a commit was recorded and is not pushed yet
C35_Witness ==
    /\ pc["m1"] = "push"
    /\ Len(commits) = 2
    /\ head_ref = 2
    /\ disk.head = 2
    /\ disk.origin = 1
    /\ remote = 1

\* C36: a tick that ends without error while no mutation is in progress,
\* its export being the clone of the commit that is checked out, leaves
\* every slot tagged with that commit.  The tick tags with head_ref and
\* skips the slots that carry it, and a sync moves HEAD without head_ref.
C36_TickPublishesCheckedOutCommit ==
    [][( /\ tick.pc = "reconciling"
         /\ tick'.pc = "idle"
         /\ tick.clone_ok
         /\ tick.tmpdir = commits[disk.head].tree
         /\ \A m \in Procs : pc[m] \in {"idle", "done"} )
       => \A r \in Repos : cache'[r].head_ref = disk.head]_vars

\* the exclusive lock is held by the mutation inside its critical section
\* and by no one else
C37_Inv ==
    /\ \A m \in Procs : (lock.writer = m) <=> InCriticalSection(m)
    /\ lock.writer \in Procs \cup {NoProc}

\* C37: a create or update holds the exclusive lock from write() to its
\* return and on no return keeps it; under fair scheduling a mutation that
\* has the lock gives it back, a waiting mutation gets it, and the refresh
\* task that waits for the shared lock gets it and gives it back.
C37_LockIsAlwaysReleased ==
    /\ []C37_Inv
    /\ \A m \in {"m1"} : InCriticalSection(m) ~> (pc[m] = "done" /\ lock.writer = NoProc)
    /\ \A m \in {"m1"} : (pc[m] = "waiting") ~> (pc[m] # "waiting")
    /\ (phase = "serving" /\ tick.pc = "idle") ~> (tick.pc = "export")
    /\ (tick.pc = "export") ~> ("tick" \notin lock.readers)
\* a request left on a failed push and the lock is free
C37_Witness ==
    /\ pc["m1"] = "done"
    /\ res["m1"] = "servererr"
    /\ "push" \in trace["m1"]
    /\ lock = Unlocked

\* the package of m's request exists in the workspace as a sync whose three
\* steps take effect leaves it
ExistsAfterSync(m) == Synced(disk).tree[File(m)].present

\* C38: the handler decides whether the package exists on the workspace as
\* it is after the sync: a create is answered with conflict exactly when
\* the package exists there, an update with not-found exactly when it does
\* not, and neither edits otherwise.  The code looks before it syncs.
C38_PreconditionAfterSync ==
    [][\A m \in Procs :
        (pc[m] = "waiting" /\ pc'[m] # "waiting") =>
            /\ (res'[m] = "conflict")
                   <=> (req[m].op = "create" /\ ExistsAfterSync(m))
            /\ (res'[m] = "notfound")
                   <=> (req[m].op = "update" /\ ~ExistsAfterSync(m))]_vars
====
